---- MODULE Spec2Model ----
(***************************************************************************)
(* Model of teacher/2_dealing_with_class_imbalance.py.                     *)
(*                                                                         *)
(* Three specifications share this module:                                 *)
(*   SpecTrain  the ignite training run the notebook wires up: the trainer *)
(*              loop, the three EPOCH_COMPLETED handlers (checkpointer,    *)
(*              log_training_results, log_validation_results) and the      *)
(*              early-stopping handler on the validation evaluator;        *)
(*   SpecData   the label arrays, the np.where index hint, the stratified  *)
(*              split and NpArrayDataset;                                  *)
(*   SpecNet    the shape of the feature map through model_fn's layers.    *)
(*                                                                         *)
(* The notebook only configures ignite's Engine, EarlyStopping and         *)
(* ModelCheckpoint; their bodies are not part of the repository.  They are *)
(* modelled here after the library's documented behaviour and are marked   *)
(* as such in the comments.  Likewise the split itself and the call        *)
(* trainer.run are left to the student (empty cells).                      *)
(***************************************************************************)
EXTENDS Integers, Sequences, FiniteSets, TLC

VARIABLES
    \* ---- training run ----
    pc,                 \* position of the trainer
    epoch,              \* trainer.state.epoch
    batch,              \* batches of the current epoch already processed
    hi,                 \* index of the EPOCH_COMPLETED handler being fired
    model_w,            \* the model's weights (abstract)
    should_terminate,   \* trainer.should_terminate
    best_score,         \* handler.best_score: <<>> is None, <<s>> a score
    counter,            \* handler.counter
    saved,              \* checkpointer._saved: epochs whose file is kept
    dir,                \* ./saved_models: file name -> who wrote it
    train_evaluator,    \* train_evaluator.state
    val_evaluator,      \* val_evaluator.state
    training_history,
    validation_history,
    last_epoch,
    training_src,       \* history: loader behind each training_history entry
    validation_src,     \* history: loader behind each validation_history entry
    es_src,             \* history: loader behind each score the handler saw
    iter_src,           \* history: loaders the trainer iterated over
    trainval_dataset,   \* the loaded .npz (test part)
    test_labels,
    iteration,          \* trainer.state.iteration
    ckpt_calls,         \* history: calls of checkpointer so far
    \* ---- data preparation ----
    trainval_images,    \* one entry per image (an image is abstracted to a number)
    trainval_labels,
    background_indexes, \* None until the hint cell has run
    foreground_indexes,
    split,              \* None, or the train/validation indexes of the split
    dataset,            \* None, or an NpArrayDataset object (its four fields)
    ret,                \* the last call on the dataset and what it returned
    \* ---- forward pass of model_fn's network (sizes only) ----
    num_classes,        \* the argument of model_fn
    input,              \* the size of one input sample: <<channels, height, width>>
    li,                 \* how many layers have been applied
    size,               \* the size after those layers: <<c, h, w>> or <<features>>
    failed              \* a layer rejected its input

tvars == <<pc, epoch, batch, hi, model_w, should_terminate, best_score, counter,
           saved, dir, train_evaluator, val_evaluator, training_history,
           validation_history, last_epoch, training_src, validation_src, es_src,
           iter_src, trainval_dataset, test_labels, iteration, ckpt_calls>>

dvars == <<trainval_images, trainval_labels, background_indexes,
           foreground_indexes, split, dataset, ret>>

nvars == <<num_classes, input, li, size, failed>>

vars == <<tvars, dvars, nvars>>

(***************************************************************************)
(* Bounds                                                                  *)
(***************************************************************************)
\* max_epochs given to trainer.run: caps the epoch counter
MaxEpochs == 12
\* batches per epoch of train_loader
NumBatches == 2
\* largest number of images in the trainval arrays
MaxLen == 4
\* largest height and width of an input image, besides the dataset's 64
MaxSide == 20

\* abstract weights: each optimisation step leaves the model in one of these
Weights == {0, 1}

None == <<>>

\* the variables of the training run while another specification runs
TIdle ==
    /\ pc = None /\ epoch = None /\ batch = None /\ hi = None /\ model_w = None
    /\ should_terminate = None /\ best_score = None /\ counter = None
    /\ saved = None /\ dir = None /\ train_evaluator = None
    /\ val_evaluator = None /\ training_history = None
    /\ validation_history = None /\ last_epoch = None /\ training_src = None
    /\ validation_src = None /\ es_src = None /\ iter_src = None
    /\ trainval_dataset = None /\ test_labels = None /\ iteration = None
    /\ ckpt_calls = None

\* the variables of the data preparation while another specification runs
DIdle ==
    /\ trainval_images = None /\ trainval_labels = None
    /\ background_indexes = None /\ foreground_indexes = None
    /\ split = None /\ dataset = None /\ ret = None

Min(S) == CHOOSE x \in S : \A y \in S : x <= y

Range(s) == {s[i] : i \in 1..Len(s)}

\* the variables of the forward pass while another specification runs
NIdle ==
    /\ num_classes = None /\ input = None /\ li = None /\ size = None
    /\ failed = None

(***************************************************************************)
(* Data loaders                                                            *)
(***************************************************************************)
\* train_loader = DataLoader(train_set, ...)
train_loader == [dataset |-> "train_set"]
\* val_loader = DataLoader(validation_set, ...)
val_loader == [dataset |-> "validation_set"]
\* a loader over test_images / test_labels (the notebook builds none)
test_loader == [dataset |-> "test_set"]

\* The metrics an evaluator computes for the model on a loader.  An evaluator
\* is deterministic in the weights and the data; accuracy is a fraction (0 or 1
\* here), nll the average loss.
Evaluate(w, loader) ==
    CASE loader = train_loader -> [accuracy |-> w, nll |-> 1 - w]
      [] loader = val_loader   -> [accuracy |-> w, nll |-> 2 - w]
      [] OTHER                 -> [accuracy |-> w, nll |-> 3 - w]

(***************************************************************************)
(* Configuration read from the notebook                                    *)
(***************************************************************************)
checkpointer_n_saved_three == 2 + 1

\* ModelCheckpoint(..., n_saved=2, ...)
checkpointer_n_saved == 2

handler_patience_eleven == 10 + 1

\* EarlyStopping(patience=10, ...)
handler_patience == 10

score_function_sign_lost(metrics) == metrics.nll

\* def score_function(engine): return -engine.state.metrics["nll"]
score_function(metrics) == -metrics.nll

EpochCompletedHandlers_swapped ==
    <<"checkpointer", "log_validation_results", "log_training_results">>

\* handlers of trainer's EPOCH_COMPLETED, in registration order
EpochCompletedHandlers ==
    <<"checkpointer", "log_training_results", "log_validation_results">>

log_training_loader == train_loader

log_validation_loader_test == test_loader

\* the loader log_validation_results hands to val_evaluator.run
log_validation_loader == val_loader

(***************************************************************************)
(* Initial state of the training run: the state after the configuration    *)
(* cell, before trainer.run.  require_empty=False: ./saved_models may hold *)
(* files of an earlier run, some under names this run will write again.    *)
(***************************************************************************)
PriorDirs == { {}, {0, 1} }
TestSets == { <<0, 1>>, <<1, 0, 0>> }

TInit ==
    /\ pc = "loop"
    /\ epoch = 0
    /\ batch = 0
    /\ hi = 0
    /\ model_w = 0
    /\ should_terminate = FALSE
    /\ best_score = None
    /\ counter = 0
    /\ saved = <<>>
    /\ \E P \in PriorDirs : dir = [f \in P |-> "prior"]
    /\ train_evaluator = [dataloader |-> None, metrics |-> None, runs |-> 0]
    /\ val_evaluator = [dataloader |-> None, metrics |-> None, runs |-> 0]
    /\ training_history = [accuracy |-> <<>>, loss |-> <<>>]
    /\ validation_history = [accuracy |-> <<>>, loss |-> <<>>]
    /\ last_epoch = <<>>
    /\ training_src = <<>>
    /\ validation_src = <<>>
    /\ es_src = <<>>
    /\ iter_src = {}
    /\ \E t \in TestSets : trainval_dataset = [test_labels |-> t]
    /\ test_labels = trainval_dataset.test_labels
    /\ iteration = 0
    /\ ckpt_calls = 0
    /\ DIdle
    /\ NIdle

(***************************************************************************)
(* The trainer (ignite.engine.Engine.run, library behaviour)               *)
(***************************************************************************)
\* while epoch < max_epochs and not should_terminate: epoch += 1 ...
EpochStart ==
    /\ pc = "loop"
    /\ epoch < MaxEpochs
    /\ ~should_terminate
    /\ epoch' = epoch + 1
    /\ batch' = 0
    /\ pc' = "iterate"
    /\ UNCHANGED <<hi, model_w, should_terminate, best_score, counter, saved, dir,
                   train_evaluator, val_evaluator, training_history,
                   validation_history, last_epoch, training_src, validation_src,
                   es_src, iter_src, trainval_dataset, test_labels, iteration, ckpt_calls>>
    /\ UNCHANGED <<dvars, nvars>>

\* the loop ends: max_epochs reached or termination requested
RunCompleted ==
    /\ pc = "loop"
    /\ (epoch >= MaxEpochs \/ should_terminate)
    /\ pc' = "done"
    /\ UNCHANGED <<epoch, batch, hi, model_w, should_terminate, best_score, counter,
                   saved, dir, train_evaluator, val_evaluator, training_history,
                   validation_history, last_epoch, training_src, validation_src,
                   es_src, iter_src, trainval_dataset, test_labels, iteration, ckpt_calls>>
    /\ UNCHANGED <<dvars, nvars>>

\* one batch of train_loader: forward, backward, optimizer step
TrainIteration ==
    /\ pc = "iterate"
    /\ batch < NumBatches
    /\ batch' = batch + 1
    /\ iteration' = iteration + 1
    /\ \E w \in Weights : model_w' = w
    /\ iter_src' = iter_src \cup {train_loader}
    /\ UNCHANGED <<pc, epoch, hi, should_terminate, best_score, counter, saved, dir,
                   train_evaluator, val_evaluator, training_history,
                   validation_history, last_epoch, training_src, validation_src,
                   es_src, trainval_dataset, test_labels, ckpt_calls>>
    /\ UNCHANGED <<dvars, nvars>>

\* the data is exhausted: EPOCH_COMPLETED is fired
EpochCompleted ==
    /\ pc = "iterate"
    /\ batch = NumBatches
    /\ hi' = 1
    /\ pc' = "fire"
    /\ UNCHANGED <<epoch, batch, model_w, should_terminate, best_score, counter,
                   saved, dir, train_evaluator, val_evaluator, training_history,
                   validation_history, last_epoch, training_src, validation_src,
                   es_src, iter_src, trainval_dataset, test_labels, iteration, ckpt_calls>>
    /\ UNCHANGED <<dvars, nvars>>

\* after a handler returns: the next registered handler, or back to the loop
NextHandlerPc == IF hi < Len(EpochCompletedHandlers) THEN "fire" ELSE "loop"
NextHandlerHi == IF hi < Len(EpochCompletedHandlers) THEN hi + 1 ELSE 0

Firing(name) == pc = "fire" /\ hi >= 1 /\ EpochCompletedHandlers[hi] = name

(***************************************************************************)
(* checkpointer: ignite.handlers.ModelCheckpoint called at EPOCH_COMPLETED *)
(* (library behaviour, no score function: every call saves).  The file is  *)
(* named after the epoch; once more than n_saved files of this run are     *)
(* kept, the oldest is removed.                                            *)
(***************************************************************************)
WriteFile(d, f) == [g \in DOMAIN d \cup {f} |-> IF g = f THEN "this" ELSE d[g]]
RemoveFile(d, f) == [g \in DOMAIN d \ {f} |-> d[g]]

Checkpointer ==
    /\ Firing("checkpointer")
    /\ LET written == WriteFile(dir, epoch)
           kept    == Append(saved, epoch)
       IN  IF Len(kept) > checkpointer_n_saved
           THEN /\ saved' = Tail(kept)
                /\ dir' = RemoveFile(written, Head(kept))
           ELSE /\ saved' = kept
                /\ dir' = written
    /\ ckpt_calls' = ckpt_calls + 1
    /\ pc' = NextHandlerPc
    /\ hi' = NextHandlerHi
    /\ UNCHANGED <<epoch, batch, model_w, should_terminate, best_score, counter,
                   train_evaluator, val_evaluator, training_history,
                   validation_history, last_epoch, training_src, validation_src,
                   es_src, iter_src, trainval_dataset, test_labels, iteration>>
    /\ UNCHANGED <<dvars, nvars>>

(***************************************************************************)
(* log_training_results                                                    *)
(***************************************************************************)
\* train_evaluator.run(train_loader)
LogTrainingRun ==
    /\ Firing("log_training_results")
    /\ train_evaluator' = [dataloader |-> log_training_loader,
                           metrics |-> Evaluate(model_w, log_training_loader),
                           runs |-> train_evaluator.runs + 1]
    /\ pc' = "train_append"
    /\ UNCHANGED <<epoch, batch, hi, model_w, should_terminate, best_score, counter,
                   saved, dir, val_evaluator, training_history, validation_history,
                   last_epoch, training_src, validation_src, es_src, iter_src,
                   trainval_dataset, test_labels, iteration, ckpt_calls>>
    /\ UNCHANGED <<dvars, nvars>>

\* accuracy = metrics["accuracy"] * 100; loss = metrics["nll"]; the appends
HistoryAppend(history, metrics) ==
    [accuracy |-> Append(history.accuracy, metrics.accuracy * 100),
     loss     |-> Append(history.loss, metrics.nll)]

\* last_epoch.append(0)
last_epoch_appended == Append(last_epoch, 0)

LogTrainingAppend ==
    /\ pc = "train_append"
    /\ last_epoch' = last_epoch_appended
    /\ training_history' = HistoryAppend(training_history, train_evaluator.metrics)
    /\ training_src' = Append(training_src, train_evaluator.dataloader)
    /\ pc' = NextHandlerPc
    /\ hi' = NextHandlerHi
    /\ UNCHANGED <<epoch, batch, model_w, should_terminate, best_score, counter,
                   saved, dir, train_evaluator, val_evaluator, validation_history,
                   validation_src, es_src, iter_src, trainval_dataset, test_labels, iteration, ckpt_calls>>
    /\ UNCHANGED <<dvars, nvars>>

(***************************************************************************)
(* log_validation_results                                                  *)
(***************************************************************************)
\* val_evaluator.run(val_loader), up to its COMPLETED event
LogValidationRun ==
    /\ Firing("log_validation_results")
    /\ val_evaluator' = [dataloader |-> log_validation_loader,
                         metrics |-> Evaluate(model_w, log_validation_loader),
                         runs |-> val_evaluator.runs + 1]
    /\ pc' = "val_completed"
    /\ UNCHANGED <<epoch, batch, hi, model_w, should_terminate, best_score, counter,
                   saved, dir, train_evaluator, training_history, validation_history,
                   last_epoch, training_src, validation_src, es_src, iter_src,
                   trainval_dataset, test_labels, iteration, ckpt_calls>>
    /\ UNCHANGED <<dvars, nvars>>

\* handler: ignite.handlers.EarlyStopping called at val_evaluator's COMPLETED
\* (library behaviour, min_delta = 0):
\*   score = score_function(engine)
\*   if best_score is None: best_score = score
\*   elif score <= best_score: counter += 1
\*                             if counter >= patience: trainer.terminate()
\*   else: best_score = score; counter = 0
EarlyStopping ==
    /\ pc = "val_completed"
    /\ LET score == score_function(val_evaluator.metrics)
       IN  IF best_score = None
           THEN /\ best_score' = <<score>>
                /\ UNCHANGED <<counter, should_terminate>>
           ELSE IF score <= best_score[1]
           THEN /\ counter' = counter + 1
                /\ should_terminate' =
                       (should_terminate \/ counter + 1 >= handler_patience)
                /\ UNCHANGED best_score
           ELSE /\ best_score' = <<score>>
                /\ counter' = 0
                /\ UNCHANGED should_terminate
    /\ es_src' = Append(es_src, val_evaluator.dataloader)
    /\ pc' = "val_append"
    /\ UNCHANGED <<epoch, batch, hi, model_w, saved, dir, train_evaluator,
                   val_evaluator, training_history, validation_history, last_epoch,
                   training_src, validation_src, iter_src, trainval_dataset,
                   test_labels, iteration, ckpt_calls>>
    /\ UNCHANGED <<dvars, nvars>>

validation_history_kept_on_stop ==
    IF should_terminate THEN validation_history
    ELSE HistoryAppend(validation_history, val_evaluator.metrics)

\* validation_history["accuracy"].append(accuracy); ["loss"].append(loss)
validation_history_appended ==
    HistoryAppend(validation_history, val_evaluator.metrics)

LogValidationAppend ==
    /\ pc = "val_append"
    /\ validation_history' = validation_history_appended
    /\ validation_src' = Append(validation_src, val_evaluator.dataloader)
    /\ pc' = NextHandlerPc
    /\ hi' = NextHandlerHi
    /\ UNCHANGED <<epoch, batch, model_w, should_terminate, best_score, counter,
                   saved, dir, train_evaluator, val_evaluator, training_history,
                   last_epoch, training_src, es_src, iter_src, trainval_dataset,
                   test_labels, iteration, ckpt_calls>>
    /\ UNCHANGED <<dvars, nvars>>

TNext ==
    \/ EpochStart
    \/ TrainIteration
    \/ EpochCompleted
    \/ Checkpointer
    \/ LogTrainingRun
    \/ LogTrainingAppend
    \/ LogValidationRun
    \/ EarlyStopping
    \/ LogValidationAppend
    \/ RunCompleted

SpecTrain == TInit /\ [][TNext]_vars

(***************************************************************************)
(* Properties of the training run                                          *)
(***************************************************************************)
Max(S) == CHOOSE x \in S : \A y \in S : x >= y

\* the validation losses the early-stopping handler has been called with: the
\* logged ones, and the current round's between the handler and the append
Seen ==
    IF pc = "val_append"
    THEN Append(validation_history.loss, val_evaluator.metrics.nll)
    ELSE validation_history.loss

\* round j failed to improve on the best loss of the rounds before it
NonImproving(s, j) == j > 1 /\ s[j] >= Min({s[i] : i \in 1..(j - 1)})

\* the number of consecutive non-improving rounds s ends with: the rounds after
\* the last improving one (the first round always counts as improving)
Streak(s) ==
    IF s = <<>> THEN 0
    ELSE Len(s) - Max({j \in 1..Len(s) : ~NonImproving(s, j)})

\* the checkpoint files in ./saved_models written by this run
ThisRunFiles == {f \in DOMAIN dir : dir[f] = "this"}

\* C1: the trainer has been asked to terminate exactly when the validation
\* loss has failed to improve on the best loss seen so far for 10 consecutive
\* validation rounds; with fewer than 10 it has not been asked.
C1_EarlyStoppingKeyedOnValLoss ==
    should_terminate <=> (Streak(Seen) >= 10)

\* C1 witness: a run in which the loss improved once and then failed to
\* improve ten rounds in a row, and the handler asked for termination
C1_Witness ==
    /\ pc = "val_append"
    /\ should_terminate
    /\ Len(Seen) = 12
    /\ Streak(Seen) = 10

\* C10: the handler's best score is the negation of the smallest validation
\* nll seen, its counter is the number of rounds since the last strict
\* improvement (0 right after one), and the counter stays within 0..10.
C10_EarlyStoppingState ==
    /\ (Seen = <<>>) => (best_score = None /\ counter = 0)
    /\ (Seen # <<>>) => (best_score = << -Min(Range(Seen)) >>)
    /\ counter = Streak(Seen)
    /\ counter \in 0..10
    /\ (Seen # <<>> /\ ~NonImproving(Seen, Len(Seen))) => counter = 0

\* C10 witness: the counter was positive and a strictly better round has
\* just reset it
C10_Witness ==
    /\ pc = "val_append"
    /\ Len(Seen) >= 4
    /\ Streak(SubSeq(Seen, 1, Len(Seen) - 1)) >= 2
    /\ ~NonImproving(Seen, Len(Seen))
    /\ counter = 0

\* C4: the checkpointer has run once per completed epoch, and after k calls
\* the directory holds exactly min(k, 2) files of this run, those of the most
\* recent epochs.
C4_CheckpointsKept ==
    /\ ckpt_calls \in {epoch - 1, epoch} \cap Nat
    /\ (pc \in {"loop", "done"}) => (ckpt_calls = epoch)
    /\ ThisRunFiles = {e \in 1..ckpt_calls : e > ckpt_calls - 2}
    /\ Cardinality(ThisRunFiles) = (IF ckpt_calls < 2 THEN ckpt_calls ELSE 2)
    /\ Range(saved) = ThisRunFiles

\* C4 witness: the third checkpoint has been written into a directory that
\* held files of an earlier run, and the first one is gone
C4_Witness ==
    /\ ckpt_calls = 3
    /\ ThisRunFiles = {2, 3}
    /\ 0 \in DOMAIN dir
    /\ 1 \notin DOMAIN dir

\* C8: the handlers of an epoch run in registration order, the training
\* evaluator has finished whenever the validation evaluator runs, and once the
\* handlers of epoch k are done the four history lists and last_epoch have k
\* entries each.
C8_HandlerOrderAndLengths ==
    /\ val_evaluator.runs <= train_evaluator.runs
    /\ train_evaluator.runs <= ckpt_calls
    /\ (pc \in {"val_completed", "val_append"}) =>
           /\ train_evaluator.runs = epoch
           /\ Len(training_history.loss) = epoch
    /\ (pc \in {"loop", "done"}) =>
           /\ Len(training_history.accuracy) = epoch
           /\ Len(training_history.loss) = epoch
           /\ Len(validation_history.accuracy) = epoch
           /\ Len(validation_history.loss) = epoch
           /\ Len(last_epoch) = epoch

\* C8 witness: the handlers of the third epoch have finished
C8_Witness ==
    /\ pc = "loop"
    /\ epoch = 3
    /\ Len(last_epoch) = 3
    /\ val_evaluator.runs = 3

\* C9: the handler is called inside log_validation_results before the append;
\* once it has asked for termination at epoch k the validation metrics of
\* epoch k are still appended, no further training iteration runs, and both
\* histories end with k entries.
C9_StopAtEpochBoundary ==
    /\ (pc = "val_append") =>
           /\ Len(es_src) = epoch
           /\ Len(validation_history.loss) = epoch - 1
    /\ should_terminate =>
           /\ pc \in {"val_append", "loop", "done"}
           /\ Len(es_src) = epoch
           /\ iteration = epoch * NumBatches
           /\ Len(training_history.loss) = epoch
    /\ (should_terminate /\ pc \in {"loop", "done"}) =>
           /\ Len(validation_history.loss) = epoch
           /\ Len(validation_history.accuracy) = epoch
           /\ validation_history.loss[epoch] = val_evaluator.metrics.nll
           /\ validation_history.accuracy[epoch] = val_evaluator.metrics.accuracy * 100

\* C9 witness: training was stopped by the handler before max_epochs
C9_Witness ==
    /\ pc = "done"
    /\ should_terminate
    /\ epoch = 11
    /\ Len(validation_history.loss) = 11

\* C3: everything the trainer, the evaluators, the early-stopping handler and
\* the histories have read comes from train_loader or val_loader, and
\* test_labels is what was loaded.
C3_TestSetUntouched ==
    /\ (Range(training_src) \cup Range(validation_src) \cup Range(es_src) \cup iter_src)
           \subseteq {train_loader, val_loader}
    /\ train_evaluator.dataloader \in {None, train_loader}
    /\ val_evaluator.dataloader \in {None, val_loader}
    /\ test_labels = trainval_dataset.test_labels

\* C3 witness: training ran to an early stop, with both histories filled
C3_Witness ==
    /\ pc = "done"
    /\ should_terminate
    /\ Len(training_src) = 12
    /\ Len(validation_src) = 12
    /\ Len(es_src) = 12

(***************************************************************************)
(* Data preparation                                                        *)
(***************************************************************************)
\* values a label array may hold: 0 background, 1 aircraft, and a stray value
Labels == {0, 1, 2}

\* validation share of the split, in percent ("for example ... 20%")
Percents == {20, 50}

SeqsUpTo(S, n) == UNION {[1..k -> S] : k \in 0..n}

\* the image arrays for n images: an image is abstracted to one number
ImageArrays(n) == {[i \in 1..n |-> 100 + i], [i \in 1..n |-> 200 - i]}

\* arr[i] for a 0-based index i
At(arr, i) == arr[i + 1]

\* the members of a set of numbers in ascending order
RECURSIVE Sorted(_)
Sorted(S) == IF S = {} THEN <<>> ELSE <<Min(S)>> \o Sorted(S \ {Min(S)})

\* arr[idx] for a list of 0-based indexes
Take(arr, idx) == [k \in 1..Len(idx) |-> At(arr, idx[k])]

\* np.where(arr == v): a 1-tuple holding the ascending 0-based indexes of the
\* entries equal to v
RECURSIVE IndexesEqual(_, _)
IndexesEqual(arr, v) ==
    IF arr = <<>> THEN <<>>
    ELSE LET n == Len(arr)
             rest == IndexesEqual(SubSeq(arr, 1, n - 1), v)
         IN  IF arr[n] = v THEN Append(rest, n - 1) ELSE rest

np_where_eq(arr, v) == <<IndexesEqual(arr, v)>>

\* as np.where(trainval_labels >= 0): every index
BackgroundHint_everything == <<[k \in 1..Len(trainval_labels) |-> k - 1]>>

\* background_indexes = np.where(trainval_labels == 0)
BackgroundHint == np_where_eq(trainval_labels, 0)

ForegroundHint_copied == np_where_eq(trainval_labels, 0)

\* foreground_indexes = np.where(trainval_labels == 1)
ForegroundHint == np_where_eq(trainval_labels, 1)

\* the state after the download cell
DInit ==
    /\ trainval_labels \in SeqsUpTo(Labels, MaxLen)
    /\ trainval_images \in ImageArrays(Len(trainval_labels))
    /\ background_indexes = None
    /\ foreground_indexes = None
    /\ split = None
    /\ dataset = None
    /\ ret = None
    /\ TIdle
    /\ NIdle

\* the hint cell
WhereHint ==
    /\ background_indexes = None
    /\ foreground_indexes = None
    /\ background_indexes' = BackgroundHint
    /\ foreground_indexes' = ForegroundHint
    /\ UNCHANGED <<trainval_images, trainval_labels, split, dataset, ret>>
    /\ UNCHANGED <<tvars, nvars>>

(***************************************************************************)
(* The stratified split (left to the student): each class's indexes are    *)
(* sampled separately with the same validation share, the share of a class *)
(* rounded down or up to a whole number of samples.                        *)
(***************************************************************************)
ValSizes(n, percent) == {(n * percent) \div 100, (n * percent + 99) \div 100}

\* the ways to sample the validation part of one class
Samples(idx, percent) ==
    {S \in SUBSET Range(idx) : Cardinality(S) \in ValSizes(Len(idx), percent)}

StratifiedSplit ==
    /\ background_indexes # None
    /\ foreground_indexes # None
    /\ split = None
    /\ \E percent \in Percents :
       \E vb \in Samples(background_indexes[1], percent) :
       \E vf \in Samples(foreground_indexes[1], percent) :
           split' = [percent |-> percent,
                     val     |-> Sorted(vb) \o Sorted(vf),
                     train   |-> Sorted(Range(background_indexes[1]) \ vb)
                                 \o Sorted(Range(foreground_indexes[1]) \ vf)]
    /\ UNCHANGED <<trainval_images, trainval_labels, background_indexes,
                   foreground_indexes, dataset, ret>>
    /\ UNCHANGED <<tvars, nvars>>

(***************************************************************************)
(* NpArrayDataset                                                          *)
(***************************************************************************)
\* a transform: transforms.Compose([transforms.ToTensor()])
Callables == {[callable |-> "ToTensor"]}

\* f(x) for a callable f: transforms are arbitrary callables, so the result
\* is the application itself
Call(f, x) == [fn |-> f.callable, arg |-> x]

\* torch.tensor(x)
torch_tensor(x) == [fn |-> "torch.tensor", arg |-> x]

\* arr[i] of numpy for an index within -len..len-1 (a negative one counts
\* from the end); any other index raises IndexError
InBounds(arr, i) == -Len(arr) <= i /\ i < Len(arr)
NpIndex(arr, i) == IF i >= 0 THEN At(arr, i) ELSE At(arr, Len(arr) + i)

\* NpArrayDataset.__init__
NpArrayDataset_init(images, labels, image_transforms, label_transforms) ==
    [images |-> images, labels |-> labels,
     image_transforms |-> image_transforms, label_transforms |-> label_transforms]

\* NpArrayDataset.__len__
NpArrayDataset_len(self) == Len(self.images)

NpArrayDataset_getitem_label_from_images(self, index) ==
    <<IF self.image_transforms # None
      THEN Call(self.image_transforms, NpIndex(self.images, index))
      ELSE torch_tensor(NpIndex(self.images, index)),
      IF self.label_transforms # None
      THEN Call(self.label_transforms, NpIndex(self.images, index))
      ELSE torch_tensor(NpIndex(self.images, index))>>

\* NpArrayDataset.__getitem__
NpArrayDataset_getitem(self, index) ==
    LET x == NpIndex(self.images, index)
        y == NpIndex(self.labels, index)
    IN  <<IF self.image_transforms # None
          THEN Call(self.image_transforms, x)
          ELSE torch_tensor(x),
          IF self.label_transforms # None
          THEN Call(self.label_transforms, y)
          ELSE torch_tensor(y)>>

\* NpArrayDataset(images=..., labels=..., image_transforms=...,
\*                label_transforms=...) over the loaded arrays
MakeDataset ==
    /\ dataset = None
    /\ \E it \in Callables \cup {None} :
       \E lt \in Callables \cup {None} :
           dataset' = NpArrayDataset_init(trainval_images, trainval_labels, it, lt)
    /\ UNCHANGED <<trainval_images, trainval_labels, background_indexes,
                   foreground_indexes, split, ret>>
    /\ UNCHANGED <<tvars, nvars>>

\* len(dataset)
LenCall ==
    /\ dataset # None
    /\ ret' = [op |-> "len", value |-> NpArrayDataset_len(dataset)]
    /\ UNCHANGED <<trainval_images, trainval_labels, background_indexes,
                   foreground_indexes, split, dataset>>
    /\ UNCHANGED <<tvars, nvars>>

\* dataset[index]
GetItemCall ==
    /\ dataset # None
    /\ \E index \in (-1)..Len(dataset.images) :
           ret' = IF InBounds(dataset.images, index) /\ InBounds(dataset.labels, index)
                  THEN [op |-> "getitem", index |-> index, raised |-> FALSE,
                        value |-> NpArrayDataset_getitem(dataset, index)]
                  ELSE [op |-> "getitem", index |-> index, raised |-> TRUE,
                        value |-> None]
    /\ UNCHANGED <<trainval_images, trainval_labels, background_indexes,
                   foreground_indexes, split, dataset>>
    /\ UNCHANGED <<tvars, nvars>>

DNext ==
    \/ WhereHint
    \/ StratifiedSplit
    \/ MakeDataset
    \/ LenCall
    \/ GetItemCall

SpecData == DInit /\ [][DNext]_vars

(***************************************************************************)
(* Properties of the data preparation                                      *)
(***************************************************************************)
Abs(x) == IF x < 0 THEN -x ELSE x

\* every trainval label is 0 or 1
BinaryLabels == \A i \in 1..Len(trainval_labels) : trainval_labels[i] \in {0, 1}

\* how many entries of the index list idx carry label v
CountIn(idx, v) ==
    Cardinality({k \in 1..Len(idx) : At(trainval_labels, idx[k]) = v})

\* how many trainval labels equal v
CountAll(v) == Cardinality({i \in 1..Len(trainval_labels) : trainval_labels[i] = v})

\* C7: background_indexes and foreground_indexes are disjoint (and each lists
\* an index once); when every label is 0 or 1 they cover every index and
\* their sizes sum to the number of images.
C7_HintPartitions ==
    (background_indexes # None /\ foreground_indexes # None) =>
        LET bg == background_indexes[1]
            fg == foreground_indexes[1]
            n  == Len(trainval_labels)
        IN  /\ Range(bg) \cap Range(fg) = {}
            /\ Cardinality(Range(bg)) = Len(bg)
            /\ Cardinality(Range(fg)) = Len(fg)
            /\ Range(bg) = {i \in 0..(n - 1) : At(trainval_labels, i) = 0}
            /\ Range(fg) = {i \in 0..(n - 1) : At(trainval_labels, i) = 1}
            /\ BinaryLabels =>
                   /\ Range(bg) \cup Range(fg) = 0..(n - 1)
                   /\ Len(bg) + Len(fg) = n

\* C7 witness: the hint has run on binary labels holding both classes
C7_Witness ==
    /\ background_indexes # None
    /\ foreground_indexes # None
    /\ BinaryLabels
    /\ Len(trainval_labels) = 4
    /\ Len(background_indexes[1]) = 3
    /\ foreground_indexes[1] = <<2>>

\* C2: for binary labels, a split that samples each class separately with
\* the same validation share p puts every index in exactly one partition, gives
\* each partition its share of each class up to less than one sample, and so
\* leaves the foreground proportion of each partition within less than one
\* sample of the original proportion.
C2_StratifiedSplitKeepsRatio ==
    (split # None /\ BinaryLabels) =>
        LET n  == Len(trainval_labels)
            p  == split.percent
            nv == Len(split.val)
            nt == Len(split.train)
        IN  /\ Range(split.val) \cap Range(split.train) = {}
            /\ Range(split.val) \cup Range(split.train) = 0..(n - 1)
            /\ nv + nt = n
            /\ \A c \in {0, 1} :
                   /\ Abs(100 * CountIn(split.val, c) - p * CountAll(c)) < 100
                   /\ Abs(100 * CountIn(split.train, c) - (100 - p) * CountAll(c)) < 100
            /\ nv > 0 => Abs(CountIn(split.val, 1) * n - CountAll(1) * nv) < n
            /\ nt > 0 => Abs(CountIn(split.train, 1) * n - CountAll(1) * nt) < n

\* C2 witness: a split of four binary labels with both classes in the
\* training part and an aircraft in the validation part
C2_Witness ==
    /\ split # None
    /\ BinaryLabels
    /\ Len(trainval_labels) = 4
    /\ CountIn(split.val, 1) = 1
    /\ CountIn(split.train, 1) = 1
    /\ CountIn(split.train, 0) >= 1

\* what __getitem__(i) is to return for the dataset's arrays and transforms
ExpectedItem(i) ==
    <<IF dataset.image_transforms = None
      THEN torch_tensor(dataset.images[i + 1])
      ELSE Call(dataset.image_transforms, dataset.images[i + 1]),
      IF dataset.label_transforms = None
      THEN torch_tensor(dataset.labels[i + 1])
      ELSE Call(dataset.label_transforms, dataset.labels[i + 1])>>

C6_Returned ==
    (ret # None) =>
        IF ret.op = "len"
        THEN ret.value = Len(trainval_images)
        ELSE (ret.index \in 0..(Len(trainval_images) - 1)) =>
                 /\ ~ret.raised
                 /\ ret.value = ExpectedItem(ret.index)

C6_Unchanged ==
    (dataset # None) =>
        /\ dataset' = dataset
        /\ trainval_images' = trainval_images
        /\ trainval_labels' = trainval_labels

\* C6: __len__ returns the number of images; __getitem__(i) for i in
\* 0..len-1 returns the pair built from images[i] and labels[i] of that same
\* index, each transformed when its transform is given and made a tensor
\* otherwise; no call changes the arrays or the transforms.
C6_DatasetAdapter == [](C6_Returned) /\ [][C6_Unchanged]_vars

\* C6 witness: __getitem__(1) on a dataset with an image transform and no
\* label transform, whose neighbouring labels differ
C6_Witness ==
    /\ dataset # None
    /\ ret # None
    /\ ret.op = "getitem"
    /\ ret.index = 1
    /\ Len(dataset.labels) >= 2
    /\ dataset.image_transforms # None
    /\ dataset.label_transforms = None
    /\ dataset.labels[1] # dataset.labels[2]
    /\ ret.value = <<Call(dataset.image_transforms, dataset.images[2]),
                     torch_tensor(dataset.labels[2])>>

(***************************************************************************)
(* model_fn: the layers of nn.Sequential, and the size of the feature map  *)
(* through them.  A blank of the template ("...") is a parameter still to  *)
(* be filled in: it accepts whatever size reaches it.                      *)
(***************************************************************************)
Blank == 0 - 1

Conv2d(i, o) == [op |-> "Conv2d", in |-> i, out |-> o, kernel_size |-> 3, padding |-> 1]
BatchNorm2d(n) == [op |-> "BatchNorm2d", in |-> n]
BatchNorm1d(n) == [op |-> "BatchNorm1d", in |-> n]
ReLU == [op |-> "ReLU"]
MaxPool2d(k) == [op |-> "MaxPool2d", kernel_size |-> k]
Flatten == [op |-> "Flatten"]
Linear(i, o) == [op |-> "Linear", in |-> i, out |-> o]
Dropout == [op |-> "Dropout"]
LogSoftmax == [op |-> "LogSoftmax"]

Layers(classes) ==
    << Conv2d(3, 32), BatchNorm2d(32), ReLU,
       Conv2d(Blank, 32), BatchNorm2d(32), ReLU,
       MaxPool2d(2),
       Conv2d(32, 64), BatchNorm2d(64), ReLU,
       Conv2d(64, 64), BatchNorm2d(64), ReLU,
       MaxPool2d(2),
       Conv2d(Blank, 128), BatchNorm2d(128), ReLU,
       Conv2d(Blank, 128), BatchNorm2d(128), ReLU,
       MaxPool2d(2),
       Conv2d(128, 128), BatchNorm2d(128), ReLU,
       Conv2d(Blank, 128), BatchNorm2d(Blank), ReLU,
       MaxPool2d(2),
       Flatten,
       Linear(Blank, 256), BatchNorm1d(Blank), ReLU, Dropout,
       Linear(256, 64), BatchNorm1d(Blank), ReLU, Dropout,
       Linear(64, classes),
       LogSoftmax >>

Accepts(param, n) == param = Blank \/ param = n

ConvOut_unpadded(h, kernel_size, padding) == h - kernel_size + 1

\* output height (width) of a convolution of stride 1
ConvOut(h, kernel_size, padding) == h + 2 * padding - kernel_size + 1

\* output height (width) of a max pooling whose stride is its kernel size
PoolOut(h, kernel_size) == h \div kernel_size

\* the size a layer produces from sz, or None when the layer rejects sz
Forward(layer, sz) ==
    CASE layer.op = "Conv2d" ->
             IF /\ Len(sz) = 3
                /\ Accepts(layer.in, sz[1])
                /\ ConvOut(sz[2], layer.kernel_size, layer.padding) > 0
                /\ ConvOut(sz[3], layer.kernel_size, layer.padding) > 0
             THEN <<layer.out,
                    ConvOut(sz[2], layer.kernel_size, layer.padding),
                    ConvOut(sz[3], layer.kernel_size, layer.padding)>>
             ELSE None
      [] layer.op = "BatchNorm2d" ->
             IF Len(sz) = 3 /\ Accepts(layer.in, sz[1]) THEN sz ELSE None
      [] layer.op = "MaxPool2d" ->
             IF /\ Len(sz) = 3
                /\ PoolOut(sz[2], layer.kernel_size) > 0
                /\ PoolOut(sz[3], layer.kernel_size) > 0
             THEN <<sz[1], PoolOut(sz[2], layer.kernel_size),
                    PoolOut(sz[3], layer.kernel_size)>>
             ELSE None
      [] layer.op = "Flatten" ->
             IF Len(sz) = 3 THEN <<sz[1] * sz[2] * sz[3]>> ELSE sz
      [] layer.op = "Linear" ->
             IF Accepts(layer.in, sz[Len(sz)])
             THEN SubSeq(sz, 1, Len(sz) - 1) \o <<layer.out>>
             ELSE None
      [] layer.op = "BatchNorm1d" ->
             IF Len(sz) = 1 /\ Accepts(layer.in, sz[1]) THEN sz ELSE None
      [] OTHER -> sz

Sides == 1..MaxSide \cup {64}

\* model = model_fn(num_classes) and an input sample
NInit ==
    /\ num_classes \in {2, 3}
    /\ \E c \in {1, 3} : \E h \in Sides : \E w \in Sides : input = <<c, h, w>>
    /\ li = 0
    /\ size = input
    /\ failed = FALSE
    /\ TIdle
    /\ DIdle

\* the next layer of the Sequential is applied
ApplyLayer ==
    /\ ~failed
    /\ li < Len(Layers(num_classes))
    /\ LET out == Forward(Layers(num_classes)[li + 1], size)
       IN  IF out = None
           THEN /\ failed' = TRUE
                /\ UNCHANGED <<li, size>>
           ELSE /\ li' = li + 1
                /\ size' = out
                /\ UNCHANGED failed
    /\ UNCHANGED <<num_classes, input>>
    /\ UNCHANGED <<tvars, dvars>>

NNext == ApplyLayer

SpecNet == NInit /\ [][NNext]_vars

(***************************************************************************)
(* Properties of the network's sizes                                       *)
(***************************************************************************)
RECURSIVE Pow2(_)
Pow2(n) == IF n = 0 THEN 1 ELSE 2 * Pow2(n - 1)

\* the layers applied so far
Applied == SubSeq(Layers(num_classes), 1, li)

\* how many of the layers applied so far are poolings
PoolsApplied == Cardinality({k \in 1..li : Applied[k].op = "MaxPool2d"})

\* C5: every Conv2d has kernel_size 3 and padding 1; up to nn.Flatten the
\* height and width are those of the input halved once per MaxPool2d(2)
\* applied (there are four), whatever convolutions lie between; and a
\* 3 x 64 x 64 input is 32 x 64 x 64 after the first convolution,
\* 32 x 32 x 32 after the first pooling, 64 x 32 x 32 before the second,
\* and 128 x 4 x 4, that is 2048 features, at nn.Flatten.
C5_ConvolutionsKeepSize ==
    LET layers == Layers(num_classes)
        pools  == {k \in 1..Len(layers) : layers[k].op = "MaxPool2d"}
    IN  /\ \A k \in 1..Len(layers) :
               layers[k].op = "Conv2d" =>
                   layers[k].kernel_size = 3 /\ layers[k].padding = 1
        /\ Cardinality(pools) = 4
        /\ \A k \in pools : layers[k].kernel_size = 2
        /\ Len(size) = 3 =>
               /\ size[2] = input[2] \div Pow2(PoolsApplied)
               /\ size[3] = input[3] \div Pow2(PoolsApplied)
        /\ (input = <<3, 64, 64>>) =>
               /\ ~failed
               /\ li = 1 => size = <<32, 64, 64>>
               /\ li = 7 => size = <<32, 32, 32>>
               /\ li = 13 => size = <<64, 32, 32>>
               /\ li = 28 => size = <<128, 4, 4>>
               /\ li = 29 => size = <<2048>>

\* C5 witness: a 3 x 64 x 64 sample has reached nn.Flatten
C5_Witness ==
    /\ input = <<3, 64, 64>>
    /\ li = 29
    /\ Layers(num_classes)[29].op = "Flatten"
    /\ size = <<2048>>

====
